---- MODULE Spec2Model ----
(***************************************************************************)
(* A model of groupcache's coordination core and of its HTTP transport:    *)
(*   - singleflight.Group (src/singleflight/singleflight.go): Do, Count,   *)
(*     LongestRunningStartTime and Lock, one goroutine per call;           *)
(*   - HTTPPool (src/http.go): the constructor's once-only flag, Set /     *)
(*     PickPeer / GetAll under the pool's mutex, and ServeHTTP with the    *)
(*     default error handler;                                              *)
(*   - httpGetter (src/http.go): Get and Remove, the pooled buffers, and   *)
(*     the URL of a request.                                               *)
(* Spec is the flight group, SpecNested the flight group with loaders that *)
(* call Do themselves, SpecLive the flight group under fair scheduling,    *)
(* SpecCtor the pool constructor, SpecPool the constructed pool, SpecServe *)
(* the inbound handler, SpecClient the getter, and SpecCodec one request   *)
(* on its way from the getter's URL to the handler's group and key.        *)
(***************************************************************************)
EXTENDS Integers, Sequences, FiniteSets, TLC

\* ------------------------------------------------------------------ bounds
\* Goroutines calling into one Group; each makes one call.
NThreads == 3
\* Distinct keys handed to Do.
NKeys == 2
Threads == 1..NThreads
Keys == 1..NKeys
\* interface{} values: NilVal is Go's nil.
NilVal == "nil value"
\* error values: a loader returns nil or an error of its own; the sentinel is
\* the one Do makes at line 58 (a fresh pointer, so no loader returns it).
NilErr == "nil"
LoaderErr == "loader error"
LeaderPanicked == "singleflight leader panicked"
\* What a loader returns: a value and no error, or no value and an error
\* (Do passes both on without looking at them).
SomeVal == "value"
LoaderResults ==
  {[val |-> SomeVal, err |-> NilErr], [val |-> NilVal, err |-> LoaderErr]}
\* time.Time{}: the zero instant; time.Now() is a later instant.
ZeroTime == 0
\* g.mu unlocked.
Unlocked == 0
\* No call attached (a nil *call).
NoCall == 0

VARIABLES
  mu,      \* Group.mu: Unlocked, or the goroutine that holds it
  mMade,   \* Group.m # nil
  m,       \* Group.m: key -> index of its call in calls
  calls,   \* every call allocated so far: [key, created, val, err, wg]
  now,     \* the clock time.Now() reads
  pc,      \* each goroutine's position
  op,      \* each goroutine's call: "none", "Do", "Count", "Time", "Lock"
  opKey,   \* Do's key argument
  opCall,  \* Do's local c
  ret,     \* what the call returned: [val, err] (Do), a number (Count, Time)
  pan,     \* the call ended by a panic propagating out of it
  ran,     \* history: this Do call executed its own fn
  joined,  \* history: the call whose loader was executing when Do looked up
  loadingAtLock \* history: the goroutines whose loader was executing when the
           \* Lock call now running its fn got the mutex

sfVars ==
  <<mu, mMade, m, calls, now, pc, op, opKey, opCall, ret, pan, ran, joined,
    loadingAtLock>>

VARIABLES
  inner    \* the call a loader's own Do call is attached to, for each
           \* goroutine whose loader is inside such a Do call

nestVars == <<inner>>

VARIABLES
  httpPoolMade,  \* the package's once-only flag
  portPicker,    \* the constructor call whose pool is the registered picker
  muxHandled,    \* http.DefaultServeMux has a handler for defaultBasePath
  cpc,           \* each constructor call's position
  cvia,          \* the call came through NewHTTPPool
  copts,         \* the call's options
  cpool          \* the pool the call returned

ctorVars == <<httpPoolMade, portPicker, muxHandled, cpc, cvia, copts, cpool>>

VARIABLES
  poolMu,       \* HTTPPool.mu: Unlocked, or the goroutine that holds it
  peers,        \* HTTPPool.peers: the peers the hash ring holds
  httpGetters,  \* HTTPPool.httpGetters: peer -> its getter
  ppc,          \* each goroutine's position
  pop,          \* each goroutine's call: "none", "Set", "PickPeer", "GetAll"
  parg,         \* Set's peers, PickPeer's key
  pret,         \* what PickPeer or GetAll returned
  setArgs,      \* history: the peers of each Set call, in the order they locked
  peersGen,     \* history: the Set call that made peers (0: the constructor)
  gettersGen,   \* history: the Set call that made httpGetters
  seen          \* history: the peersGen and gettersGen a reader found

poolVars ==
  <<poolMu, peers, httpGetters, ppc, pop, parg, pret, setArgs, peersGen, gettersGen, seen>>

\* What each part of the model leaves alone.
VARIABLES
  registry,        \* the groups GetGroup finds, by name
  mainCache,       \* the <<group, key>> pairs held in the groups' local caches
  serverRequests,  \* Stats.ServerRequests of each registered group
  reqs             \* the inbound requests so far, in the order of arrival:
                   \* [pc, method, tail, status, body, contentType, hookCalls,
                   \*  lookups, removes, gets]

serveVars == <<registry, mainCache, serverRequests, reqs>>

VARIABLES
  bufferPool,  \* the buffers Put into the package's sync.Pool
  bufData,     \* the backing array of every buffer the pool's New has made
  gcalls       \* the getter calls so far, in the order of their start:
               \* [pc, op, in, res, b, read, ret, out]

clientVars == <<bufferPool, bufData, gcalls>>

VARIABLES
  wire     \* one request on its way from a getter to a pool's handler:
           \* [step, group, key, url, path, parsed]

codecVars == <<wire>>

notSF == <<ctorVars, poolVars, serveVars, clientVars, nestVars, codecVars>>
notCtor == <<sfVars, poolVars, serveVars, clientVars, nestVars, codecVars>>
notPool == <<sfVars, ctorVars, serveVars, clientVars, nestVars, codecVars>>
notServe == <<sfVars, ctorVars, poolVars, clientVars, nestVars, codecVars>>
notClient == <<sfVars, ctorVars, poolVars, serveVars, nestVars, codecVars>>
notNest == <<ctorVars, poolVars, serveVars, clientVars, codecVars>>
notCodec == <<sfVars, nestVars, ctorVars, poolVars, serveVars, clientVars>>

NoRet == [val |-> NilVal, err |-> NilErr]

\* The goroutines that are inside Do as the owner of an entry: between the
\* insertion at line 61 and the end of the deferred delete at line 68.
LeaderPcs == {"loading", "deferDone", "deferLock"}

InitSF ==
  /\ mu = Unlocked
  /\ mMade = FALSE
  /\ m = [k \in {} |-> NoCall]
  /\ calls = << >>
  /\ now = 1
  /\ pc = [t \in Threads |-> "idle"]
  /\ op = [t \in Threads |-> "none"]
  /\ opKey = [t \in Threads |-> 0]
  /\ opCall = [t \in Threads |-> NoCall]
  /\ ret = [t \in Threads |-> NoRet]
  /\ pan = [t \in Threads |-> FALSE]
  /\ ran = [t \in Threads |-> FALSE]
  /\ joined = [t \in Threads |-> NoCall]
  /\ loadingAtLock = {}
  /\ inner = [t \in {} |-> NoCall]

\* time.Now(): the instant last read, or a later one. Only the order of the
\* instants matters to the code (IsZero, Before), so one step is enough.
Clock == {now, now + 1}

\* The goroutines are numbered in the order in which their calls first get
\* g.mu (every call of the Group starts by locking it), and the keys in the
\* order in which Do first sees them.
MayStart(t) ==
  /\ pc[t] = "idle" /\ op[t] = "none"
  /\ IF t = 1 THEN TRUE ELSE op[t - 1] # "none"

MayUse(k) == IF k = 1 THEN TRUE ELSE \E u \in Threads : opKey[u] = k - 1

\* g.mu.Lock() returns only when the mutex is free
MuFree == mu = Unlocked

\* A lookup that never finds the key's call.
NeverHasEntry(k) == FALSE

\* line 51: c, ok := g.m[key]
HasEntry(k) == k \in DOMAIN m

\* The leader keeps the mutex while it runs fn.
StillLocked(t) == t

\* line 62: g.mu.Unlock() before fn is called
UnlockBeforeLoader(t) == Unlocked

\* The new call without c.wg.Add(1).
NewCallNoAdd(k) ==
  [key |-> k, created |-> now', val |-> NilVal, err |-> LeaderPanicked,
   wg |-> 0]

\* line 56-60: the new call, its error pre-seeded, its WaitGroup at 1
NewCall(k) ==
  [key |-> k, created |-> now', val |-> NilVal, err |-> LeaderPanicked,
   wg |-> 1]

\* The call whose loader is executing for key k, if any (history only).
LoadingCall(k) ==
  IF \E u \in Threads : pc[u] = "loading" /\ opKey[u] = k
  THEN opCall[CHOOSE u \in Threads : pc[u] = "loading" /\ opKey[u] = k]
  ELSE NoCall

\* lines 47-62: Do(key, fn) locks g.mu, attaches to the key's call or
\* inserts a new one, and unlocks; the leader goes on to run fn at line 71.
\* Nothing else reads or writes the Group while g.mu is held, so the critical
\* section is one step.
DoEnter(t, k) ==
  /\ MayStart(t) /\ MayUse(k)
  /\ MuFree
  /\ op' = [op EXCEPT ![t] = "Do"]
  /\ opKey' = [opKey EXCEPT ![t] = k]
  /\ mMade' = TRUE
  /\ joined' = [joined EXCEPT ![t] = LoadingCall(k)]
  /\ IF HasEntry(k)
     THEN /\ opCall' = [opCall EXCEPT ![t] = m[k]]
          /\ pc' = [pc EXCEPT ![t] = "waiting"]
          /\ mu' = Unlocked
          /\ UNCHANGED <<m, calls, now, ran>>
     ELSE /\ now' \in Clock
          /\ calls' = Append(calls, NewCall(k))
          /\ m' = [j \in DOMAIN m \cup {k} |-> IF j = k THEN Len(calls) + 1 ELSE m[j]]
          /\ opCall' = [opCall EXCEPT ![t] = Len(calls) + 1]
          /\ ran' = [ran EXCEPT ![t] = TRUE]
          /\ pc' = [pc EXCEPT ![t] = "loading"]
          /\ mu' = UnlockBeforeLoader(t)
  /\ UNCHANGED <<ret, pan, loadingAtLock>>
  /\ UNCHANGED notSF

\* fn's result is returned to the leader's caller and not stored in the call.
LoaderReturnUnstored(t, r) ==
  /\ pc[t] = "loading"
  /\ ret' = [ret EXCEPT ![t] = r]
  /\ pc' = [pc EXCEPT ![t] = "deferDone"]
  /\ UNCHANGED <<mu, mMade, m, calls, now, op, opKey, opCall, pan, ran, joined, loadingAtLock>>
  /\ UNCHANGED notSF

\* lines 71-72: fn returns (v, e); both are stored in the call and are what
\* the return statement reads
LoaderReturn(t, r) ==
  /\ pc[t] = "loading"
  /\ calls' = [calls EXCEPT ![opCall[t]].val = r.val, ![opCall[t]].err = r.err]
  /\ ret' = [ret EXCEPT ![t] = [val |-> calls'[opCall[t]].val, err |-> calls'[opCall[t]].err]]
  /\ pc' = [pc EXCEPT ![t] = "deferDone"]
  /\ UNCHANGED <<mu, mMade, m, now, op, opKey, opCall, pan, ran, joined, loadingAtLock>>
  /\ UNCHANGED notSF

\* fn panics and the cleanup, not deferred, is skipped.
LoaderPanicNoDefer(t) ==
  /\ pc[t] = "loading"
  /\ pan' = [pan EXCEPT ![t] = TRUE]
  /\ pc' = [pc EXCEPT ![t] = "done"]
  /\ UNCHANGED <<mu, mMade, m, calls, now, op, opKey, opCall, ret, ran, joined, loadingAtLock>>
  /\ UNCHANGED notSF

\* line 71: fn panics; nothing is assigned and the deferred function runs
LoaderPanic(t) ==
  /\ pc[t] = "loading"
  /\ pan' = [pan EXCEPT ![t] = TRUE]
  /\ pc' = [pc EXCEPT ![t] = "deferDone"]
  /\ UNCHANGED <<mu, mMade, m, calls, now, op, opKey, opCall, ret, ran, joined, loadingAtLock>>
  /\ UNCHANGED notSF

\* c.wg.Done() called only once the mutex is held.
DeferDoneUnderLock(t) ==
  /\ pc[t] = "deferDone"
  /\ MuFree
  /\ calls' = [calls EXCEPT ![opCall[t]].wg = @ - 1]
  /\ pc' = [pc EXCEPT ![t] = "deferLock"]
  /\ UNCHANGED <<mu, mMade, m, now, op, opKey, opCall, ret, pan, ran, joined, loadingAtLock>>
  /\ UNCHANGED notSF

\* The deferred function goes on without c.wg.Done().
DeferDoneNoSignal(t) ==
  /\ pc[t] = "deferDone"
  /\ pc' = [pc EXCEPT ![t] = "deferLock"]
  /\ UNCHANGED <<mu, mMade, m, calls, now, op, opKey, opCall, ret, pan, ran, joined, loadingAtLock>>
  /\ UNCHANGED notSF

\* line 65: c.wg.Done()
DeferDone(t) ==
  /\ pc[t] = "deferDone"
  /\ calls' = [calls EXCEPT ![opCall[t]].wg = @ - 1]
  /\ pc' = [pc EXCEPT ![t] = "deferLock"]
  /\ UNCHANGED <<mu, mMade, m, now, op, opKey, opCall, ret, pan, ran, joined, loadingAtLock>>
  /\ UNCHANGED notSF

\* lines 66-68: g.mu.Lock(); delete(g.m, key); g.mu.Unlock(); then Do
\* returns, or the panic goes on up the leader's stack
DeferDelete(t) ==
  /\ pc[t] = "deferLock"
  /\ MuFree
  /\ m' = [k \in DOMAIN m \ {opKey[t]} |-> m[k]]
  /\ mu' = Unlocked
  /\ pc' = [pc EXCEPT ![t] = "done"]
  /\ UNCHANGED <<mMade, calls, now, op, opKey, opCall, ret, pan, ran, joined, loadingAtLock>>
  /\ UNCHANGED notSF

\* A Wait that returns at once.
WaitReturnsAtOnce(c) == TRUE

\* line 53: c.wg.Wait() returns once the counter is 0
Wait(c) == calls[c].wg = 0

\* lines 53-54: c.wg.Wait(); return c.val, c.err
FollowerReturn(t) ==
  /\ pc[t] = "waiting"
  /\ Wait(opCall[t])
  /\ ret' = [ret EXCEPT ![t] =
               [val |-> calls[opCall[t]].val, err |-> calls[opCall[t]].err]]
  /\ pc' = [pc EXCEPT ![t] = "done"]
  /\ UNCHANGED <<mu, mMade, m, calls, now, op, opKey, opCall, pan, ran, joined, loadingAtLock>>
  /\ UNCHANGED notSF

\* The number of callers inside Do, leaders and followers alike.
LenCallers == Cardinality({u \in Threads : pc[u] \in LeaderPcs \cup {"waiting"}})

\* line 79: len(g.m)
LenM == Cardinality(DOMAIN m)

\* lines 76-80: Count locks, reads len(g.m), unlocks
Count(t) ==
  /\ MayStart(t)
  /\ MuFree
  /\ op' = [op EXCEPT ![t] = "Count"]
  /\ ret' = [ret EXCEPT ![t] = [val |-> LenM, err |-> NilErr]]
  /\ pc' = [pc EXCEPT ![t] = "done"]
  /\ UNCHANGED <<mu, mMade, m, calls, now, opKey, opCall, pan, ran, joined, loadingAtLock>>
  /\ UNCHANGED notSF

\* time.Time.After
After(a, b) == a > b

\* line 88: time.Time.Before
Before(a, b) == a < b

\* line 88: time.Time.IsZero
IsZero(a) == a = ZeroTime

\* lines 86-91: the loop over g.m, in the order the map iteration yields
RECURSIVE Oldest(_, _)
Oldest(order, oldest) ==
  IF order = << >> THEN oldest
  ELSE LET e == calls[m[Head(order)]]
       IN Oldest(Tail(order),
                 IF IsZero(oldest) \/ Before(e.created, oldest)
                 THEN e.created ELSE oldest)

\* The orders in which a range loop may visit the keys of g.m.
Orders(S) ==
  {o \in [1..Cardinality(S) -> S] : \A i, j \in DOMAIN o : i # j => o[i] # o[j]}

\* lines 83-93: LongestRunningStartTime locks, folds over g.m, unlocks
LongestRunningStartTime(t) ==
  /\ MayStart(t)
  /\ MuFree
  /\ op' = [op EXCEPT ![t] = "Time"]
  /\ \E o \in Orders(DOMAIN m) :
       ret' = [ret EXCEPT ![t] = [val |-> Oldest(o, ZeroTime), err |-> NilErr]]
  /\ pc' = [pc EXCEPT ![t] = "done"]
  /\ UNCHANGED <<mu, mMade, m, calls, now, opKey, opCall, pan, ran, joined, loadingAtLock>>
  /\ UNCHANGED notSF

\* Lock(fn) calls fn with the mutex released.
LockBeginNoHold(t) ==
  /\ MayStart(t)
  /\ MuFree
  /\ mu' = Unlocked
  /\ op' = [op EXCEPT ![t] = "Lock"]
  /\ pc' = [pc EXCEPT ![t] = "lockFn"]
  /\ loadingAtLock' = {u \in Threads : pc[u] = "loading"}
  /\ UNCHANGED <<mMade, m, calls, now, opKey, opCall, ret, pan, ran, joined>>
  /\ UNCHANGED notSF

\* lines 99-101: Lock(fn) acquires g.mu and calls fn
LockBegin(t) ==
  /\ MayStart(t)
  /\ MuFree
  /\ mu' = t
  /\ op' = [op EXCEPT ![t] = "Lock"]
  /\ pc' = [pc EXCEPT ![t] = "lockFn"]
  /\ loadingAtLock' = {u \in Threads : pc[u] = "loading"}
  /\ UNCHANGED <<mMade, m, calls, now, opKey, opCall, ret, pan, ran, joined>>
  /\ UNCHANGED notSF

\* lines 100-102: fn returns and the deferred Unlock runs
LockEnd(t) ==
  /\ pc[t] = "lockFn"
  /\ mu' = Unlocked
  /\ pc' = [pc EXCEPT ![t] = "done"]
  /\ loadingAtLock' = {}
  /\ UNCHANGED <<mMade, m, calls, now, op, opKey, opCall, ret, pan, ran, joined>>
  /\ UNCHANGED notSF

NextSF ==
  \E t \in Threads :
       \/ \E k \in Keys : DoEnter(t, k)
       \/ \E r \in LoaderResults : LoaderReturn(t, r)
       \/ LoaderPanic(t)
       \/ DeferDone(t)
       \/ DeferDelete(t)
       \/ FollowerReturn(t)
       \/ Count(t)
       \/ LongestRunningStartTime(t)
       \/ LockBegin(t)
       \/ LockEnd(t)

\* ------------------------------------- a loader that calls Do itself
\* Goroutines of the runs in which loaders call back into the Group.
NNested == 2
NestedThreads == 1..NNested

\* lines 47-53, called from inside fn (line 71): the loader of goroutine t
\* calls Do(k) on the same Group for a key that has an entry; the inner call
\* locks g.mu, finds the entry, unlocks and waits for that call's WaitGroup.
NestedEnter(t, k) ==
  /\ pc[t] = "loading"
  /\ MuFree
  /\ HasEntry(k)
  /\ inner' = [u \in DOMAIN inner \cup {t} |-> IF u = t THEN m[k] ELSE inner[u]]
  /\ pc' = [pc EXCEPT ![t] = "nestedWaiting"]
  /\ mu' = Unlocked
  /\ UNCHANGED <<mMade, m, calls, now, op, opKey, opCall, ret, pan, ran, joined, loadingAtLock>>
  /\ UNCHANGED notNest

\* lines 53-54 of the inner call: its Wait returns and the loader goes on.
NestedReturn(t) ==
  /\ pc[t] = "nestedWaiting"
  /\ Wait(inner[t])
  /\ inner' = [u \in DOMAIN inner \ {t} |-> inner[u]]
  /\ pc' = [pc EXCEPT ![t] = "loading"]
  /\ UNCHANGED <<mu, mMade, m, calls, now, op, opKey, opCall, ret, pan, ran, joined, loadingAtLock>>
  /\ UNCHANGED notNest

NextNested ==
  \E t \in NestedThreads :
       \/ \E k \in Keys : DoEnter(t, k)
       \/ \E r \in LoaderResults : LoaderReturn(t, r)
       \/ LoaderPanic(t)
       \/ DeferDone(t)
       \/ DeferDelete(t)
       \/ FollowerReturn(t)
       \/ \E k \in Keys : NestedEnter(t, k)
       \/ NestedReturn(t)

\* ------------------------------------------------- fair runs of the Group
\* Goroutines of the fair runs.
NLive == 2
LiveThreads == 1..NLive

\* What goroutine t does next once it is inside a call: its loader returns
\* or panics, the deferred function runs, a follower's Wait returns, Lock's fn
\* returns.
Proceed(t) ==
  \/ \E r \in LoaderResults : LoaderReturn(t, r)
  \/ LoaderPanic(t)
  \/ DeferDone(t)
  \/ DeferDelete(t)
  \/ FollowerReturn(t)
  \/ LockEnd(t)

\* Do and Lock calls; Count and LongestRunningStartTime, which are one step
\* under the mutex and wait for nothing else, are left out.
NextLive ==
  \E t \in LiveThreads :
       \/ \E k \in Keys : DoEnter(t, k)
       \/ \E r \in LoaderResults : LoaderReturn(t, r)
       \/ LoaderPanic(t)
       \/ DeferDone(t)
       \/ DeferDelete(t)
       \/ FollowerReturn(t)
       \/ LockBegin(t)
       \/ LockEnd(t)

\* ------------------------------------------------- the pool constructor
\* Goroutines calling NewHTTPPool or NewHTTPPoolOpts; each makes one call.
NCtors == 3
Ctors == 1..NCtors

defaultBasePath == "/_groupcache/"
defaultReplicas == 50
\* The o argument: nil, options left blank, options filled in.
NilOpts == [BasePath |-> "", Replicas |-> 0]
SomeOpts == [BasePath |-> "/cache/", Replicas |-> 7]
Opts == {NilOpts, SomeOpts}
NoPool == [basePath |-> "", replicas |-> 0]

InitCtor ==
  /\ httpPoolMade = FALSE
  /\ portPicker = 0
  /\ muxHandled = FALSE
  /\ cpc = [t \in Ctors |-> "idle"]
  /\ cvia = [t \in Ctors |-> FALSE]
  /\ copts = [t \in Ctors |-> NilOpts]
  /\ cpool = [t \in Ctors |-> NoPool]

\* lines 104-105, 116-118: the call reads httpPoolMade and panics when it is
\* set. NewHTTPPool passes nil options.
CtorCheck(t, via, o) ==
  /\ cpc[t] = "idle"
  /\ via => o = NilOpts
  /\ cvia' = [cvia EXCEPT ![t] = via]
  /\ copts' = [copts EXCEPT ![t] = o]
  /\ cpc' = [cpc EXCEPT ![t] = IF httpPoolMade THEN "panicked" ELSE "checked"]
  /\ UNCHANGED <<httpPoolMade, portPicker, muxHandled, cpool>>
  /\ UNCHANGED notCtor

\* lines 128-133: blank options take the defaults
MakePool(o) ==
  [basePath |-> IF o.BasePath = "" THEN defaultBasePath ELSE o.BasePath,
   replicas |-> IF o.Replicas = 0 THEN defaultReplicas ELSE o.Replicas]

\* RegisterPeerPicker: the pool becomes the process's peer picker
RegisterPeerPicker(t) == portPicker' = t

\* lines 119-141: the flag is set, the pool is built and registered, and
\* NewHTTPPoolOpts returns it
CtorMake(t) ==
  /\ cpc[t] = "checked"
  /\ httpPoolMade' = TRUE
  /\ cpool' = [cpool EXCEPT ![t] = MakePool(copts[t])]
  /\ RegisterPeerPicker(t)
  /\ cpc' = [cpc EXCEPT ![t] = IF cvia[t] THEN "made" ELSE "returned"]
  /\ UNCHANGED <<muxHandled, cvia, copts>>
  /\ UNCHANGED notCtor

\* lines 106-107: NewHTTPPool registers the pool with http.Handle, which
\* panics when the pattern already has a handler, and returns it
CtorHandle(t) ==
  /\ cpc[t] = "made"
  /\ muxHandled' = TRUE
  /\ cpc' = [cpc EXCEPT ![t] = IF muxHandled THEN "panicked" ELSE "returned"]
  /\ cpool' = [cpool EXCEPT ![t] = IF muxHandled THEN NoPool ELSE @]
  /\ UNCHANGED <<httpPoolMade, portPicker, cvia, copts>>
  /\ UNCHANGED notCtor

NextCtor ==
  \E t \in Ctors :
    \/ \E via \in BOOLEAN, o \in Opts : CtorCheck(t, via, o)
    \/ CtorMake(t)
    \/ CtorHandle(t)

\* ------------------------------------------------- the constructed pool
\* Goroutines calling Set, PickPeer or GetAll on the pool; each makes one call.
NCallers == 3
\* Peers a Set call may name; peer 1 is the pool's own identity.
NPeers == 2
\* Keys handed to PickPeer.
NPickKeys == 2
Callers == 1..NCallers
Peers == 1..NPeers
PickKeys == 1..NPickKeys
Self == 1
\* A nil *httpGetter.
NilGetter == [baseURL |-> << >>]

NoResult == [getter |-> NilGetter, ok |-> FALSE, owner |-> 0, all |-> {}]

\* lines 121-134: the pool as NewHTTPPoolOpts returns it
InitPool ==
  /\ poolMu = Unlocked
  /\ peers = {}
  /\ httpGetters = [x \in {} |-> NilGetter]
  /\ ppc = [t \in Callers |-> "idle"]
  /\ pop = [t \in Callers |-> "none"]
  /\ parg = [t \in Callers |-> 0]
  /\ pret = [t \in Callers |-> NoResult]
  /\ setArgs = << >>
  /\ peersGen = 0
  /\ gettersGen = 0
  /\ seen = [t \in Callers |-> <<0, 0>>]

\* The goroutines are numbered in the order in which their calls get p.mu.
PoolMayStart(t) ==
  /\ ppc[t] = "idle"
  /\ IF t = 1 THEN TRUE ELSE pop[t - 1] # "none"

\* line 148: Set locks p.mu
SetLock(t, ps) ==
  /\ PoolMayStart(t)
  /\ poolMu = Unlocked
  /\ poolMu' = t
  /\ pop' = [pop EXCEPT ![t] = "Set"]
  /\ parg' = [parg EXCEPT ![t] = ps]
  /\ setArgs' = Append(setArgs, ps)
  /\ ppc' = [ppc EXCEPT ![t] = "setPeers"]
  /\ UNCHANGED <<peers, httpGetters, pret, peersGen, gettersGen, seen>>
  /\ UNCHANGED notPool

\* lines 150-151: a new ring holding the peers
SetPeers(t) ==
  /\ ppc[t] = "setPeers"
  /\ peers' = parg[t]
  /\ peersGen' = Len(setArgs)
  /\ ppc' = [ppc EXCEPT ![t] = "setGetters"]
  /\ UNCHANGED <<poolMu, httpGetters, pop, parg, pret, setArgs, gettersGen, seen>>
  /\ UNCHANGED notPool

\* lines 154-157: the getter of a peer
MakeGetter(peer) == [baseURL |-> <<peer, defaultBasePath>>]

\* lines 152-158, 149: a new map with a getter per peer; p.mu is unlocked
SetGetters(t) ==
  /\ ppc[t] = "setGetters"
  /\ httpGetters' = [peer \in parg[t] |-> MakeGetter(peer)]
  /\ gettersGen' = Len(setArgs)
  /\ poolMu' = Unlocked
  /\ ppc' = [ppc EXCEPT ![t] = "done"]
  /\ UNCHANGED <<peers, pop, parg, pret, setArgs, peersGen, seen>>
  /\ UNCHANGED notPool

\* consistenthash.Map.IsEmpty
IsEmpty(ring) == ring = {}

\* consistenthash.Map.Get: the owner of the key, one of the ring's peers, the
\* same one for the same key and ring
Get(ring, key) ==
  CHOOSE peer \in ring :
    Cardinality({q \in ring : q < peer}) = key % Cardinality(ring)

\* A reader that does not lock.
ReaderNoLock == TRUE

\* lines 163, 176: a reader locks p.mu
ReaderLock == poolMu = Unlocked

\* Every owner is taken for a remote peer.
AlwaysRemote(peer) == TRUE

\* line 181: peer != p.self
IsRemote(peer) == peer # Self

\* line 182: p.httpGetters[peer]
Getter(peer) == IF peer \in DOMAIN httpGetters THEN httpGetters[peer] ELSE NilGetter

\* lines 175-185: PickPeer locks, asks the ring for the key's owner, and unlocks
PickPeer(t, key) ==
  /\ PoolMayStart(t)
  /\ ReaderLock
  /\ pop' = [pop EXCEPT ![t] = "PickPeer"]
  /\ parg' = [parg EXCEPT ![t] = key]
  /\ seen' = [seen EXCEPT ![t] = <<peersGen, gettersGen>>]
  /\ pret' = [pret EXCEPT ![t] =
       IF IsEmpty(peers) THEN NoResult
       ELSE IF IsRemote(Get(peers, key))
            THEN [getter |-> Getter(Get(peers, key)), ok |-> TRUE,
                  owner |-> Get(peers, key), all |-> {}]
            ELSE [NoResult EXCEPT !.owner = Get(peers, key)]]
  /\ ppc' = [ppc EXCEPT ![t] = "done"]
  /\ UNCHANGED <<poolMu, peers, httpGetters, setArgs, peersGen, gettersGen>>
  /\ UNCHANGED notPool

\* lines 162-173: GetAll locks, copies the getters out of the map, and unlocks
GetAll(t) ==
  /\ PoolMayStart(t)
  /\ ReaderLock
  /\ pop' = [pop EXCEPT ![t] = "GetAll"]
  /\ seen' = [seen EXCEPT ![t] = <<peersGen, gettersGen>>]
  /\ pret' = [pret EXCEPT ![t] =
       [NoResult EXCEPT !.all = {httpGetters[x] : x \in DOMAIN httpGetters}]]
  /\ ppc' = [ppc EXCEPT ![t] = "done"]
  /\ UNCHANGED <<poolMu, peers, httpGetters, parg, setArgs, peersGen, gettersGen>>
  /\ UNCHANGED notPool

NextPool ==
  \E t \in Callers :
    \/ \E ps \in SUBSET Peers : SetLock(t, ps)
    \/ SetPeers(t)
    \/ SetGetters(t)
    \/ \E key \in PickKeys : PickPeer(t, key)
    \/ GetAll(t)

\* --------------------------------------------------- the inbound handler
\* Inbound requests under the base path; each is served by one goroutine.
NReqs == 1
\* Length of the longest request path after the base path.
MaxTail == 3
Reqs == 1..NReqs
\* Strings are sequences of characters.
EmptyString == << >>
Slash == "/"
TailChars == {"g", "k", Slash}
Strs(chars, n) == UNION {[1..k -> chars] : k \in 0..n}
Tails == Strs(TailChars, MaxTail)
MethodGet == "GET"
MethodDelete == "DELETE"
MethodPost == "POST"
Methods == {MethodGet, MethodDelete, MethodPost}
\* The one group that is registered under its name.
GroupNames == {<<"g">>}
NilGroup == "nil group"
\* net/http's status codes.
StatusOK == 200
StatusBadRequest == 400
StatusNotFound == 404
StatusInternalServerError == 500
NoResponse == 0
NoBody == [kind |-> "none"]

\* A request as it arrives: r.Method, r.URL.Path after p.opts.BasePath, the
\* response's status code (NoResponse: none yet), what was written to the
\* http.ResponseWriter, the Content-Type header, and the calls made so far of
\* p.opts.ServerErrorHandler, GetGroup, group.localRemove and group.Get.
NewRequest(method, tail) ==
  [pc |-> "parsed", method |-> method, tail |-> tail, status |-> NoResponse,
   body |-> NoBody, contentType |-> "none", hookCalls |-> 0, lookups |-> 0,
   removes |-> 0, gets |-> 0]

InitServe ==
  /\ registry = GroupNames
  /\ mainCache = {<< <<"g">>, <<"k">> >>}
  /\ serverRequests = [g \in GroupNames |-> 0]
  /\ reqs = << >>

\* strings.Index(s, "/") counted from 1; 0 when s has no "/".
RECURSIVE IndexSlash(_, _)
IndexSlash(s, i) ==
  IF i > Len(s) THEN 0
  ELSE IF s[i] = Slash THEN i ELSE IndexSlash(s, i + 1)

\* line 200: strings.SplitN(s, "/", 2): s itself when it holds no "/", and
\* otherwise what precedes the first "/" and all that follows it.
SplitN2(s) ==
  LET i == IndexSlash(s, 1) IN
    IF i = 0 THEN <<s>>
    ELSE <<SubSeq(s, 1, i - 1), SubSeq(s, i + 1, Len(s))>>

\* The error values ServeHTTP hands to the error handler, each named by its
\* type; GetError is whatever error group.Get returns.
BadGroupcacheRequestError == "BadGroupcacheRequestError"
GroupNotFoundError == "GroupNotFoundError"
GetError == "error of group.Get"

\* Every error is answered as an internal error.
AlwaysInternalError(err) ==
  [status |-> StatusInternalServerError, body |-> [kind |-> "text", err |-> err]]

\* lines 334-349: the default hook answers with the status of the error's type
\* and the error's text.
DefaultServerErrorHandler(err) ==
  [status |-> CASE err = BadGroupcacheRequestError -> StatusBadRequest
                [] err = GroupNotFoundError -> StatusNotFound
                [] OTHER -> StatusInternalServerError,
   body |-> [kind |-> "text", err |-> err]]

\* GetGroup(name): the registered group of this name, or nil.
GetGroup(groupName) == IF groupName \in registry THEN groupName ELSE NilGroup

\* group.localRemove(key): the key leaves the group's local cache.
localRemove(group, key) == mainCache \ {<<group, key>>}

\* What group.Get hands back: the bytes of the key in the sink, expiring or
\* not, and no error; or an error and no bytes.
ValueOf(key) == <<"value of", key>>
NoBytes == << >>
GetResults == {"value", "expiring value", "error"}
GetOutcome(key, result) ==
  [err |-> IF result = "error" THEN GetError ELSE NilErr,
   b |-> IF result = "error" THEN NoBytes ELSE ValueOf(key),
   e |-> IF result = "expiring value" THEN 1 ELSE ZeroTime]

\* value.view(): the sink's bytes as a view.
View(got) == [err |-> NilErr, b |-> got.b, e |-> got.e]

\* proto.Marshal of a GetResponse.
Marshal(value, expireNano) ==
  [err |-> NilErr,
   body |-> [kind |-> "protobuf", value |-> value, expire |-> expireNano]]

\* lines 237-240: the expiry in nanoseconds, 0 for a view that never expires.
ExpireNano(view) == IF view.e # ZeroTime THEN view.e ELSE 0

\* The request is a DELETE.
AnyMethodGets(method) == FALSE

\* line 218: r.Method == http.MethodDelete
IsDelete(method) == method = MethodDelete

\* The error handler has answered: its status and body are the response.
Answered(req, answer) ==
  [req EXCEPT !.hookCalls = @ + 1, !.status = answer.status,
              !.body = answer.body, !.pc = "done"]

\* lines 187-221: ServeHTTP up to its call of group.Get: the path is split,
\* the group looked up and counted, and a DELETE answered.
ServeHTTP ==
  /\ Len(reqs) < NReqs
  /\ \E method \in Methods, tail \in Tails :
       LET req == NewRequest(method, tail)
           parts == SplitN2(tail)
           groupName == parts[1]
           key == parts[2]
           group == GetGroup(groupName)
           looked == [req EXCEPT !.lookups = @ + 1]
       IN
         IF Len(parts) # 2
         THEN /\ reqs' = Append(reqs, Answered(req,
                   DefaultServerErrorHandler(BadGroupcacheRequestError)))
              /\ UNCHANGED <<serverRequests, mainCache>>
         ELSE IF group = NilGroup
         THEN /\ reqs' = Append(reqs, Answered(looked,
                   DefaultServerErrorHandler(GroupNotFoundError)))
              /\ UNCHANGED <<serverRequests, mainCache>>
         ELSE
           /\ serverRequests' = [serverRequests EXCEPT ![group] = @ + 1]
           /\ IF IsDelete(method)
              THEN /\ mainCache' = localRemove(group, key)
                   /\ reqs' = Append(reqs,
                        [looked EXCEPT !.removes = @ + 1, !.status = StatusOK,
                                       !.pc = "done"])
              ELSE /\ reqs' = Append(reqs, [looked EXCEPT !.pc = "get"])
                   /\ UNCHANGED mainCache
  /\ UNCHANGED registry
  /\ UNCHANGED notServe

\* lines 223-249: group.Get returns; its error goes to the error handler, its
\* value is marshalled and written.
GetReturn(t, result) ==
  /\ t \in DOMAIN reqs
  /\ reqs[t].pc = "get"
  /\ LET parts == SplitN2(reqs[t].tail)
         group == parts[1]
         key == parts[2]
         got == GetOutcome(key, result)
         view == View(got)
         msg == Marshal(got.b, ExpireNano(view))
         failure == IF got.err # NilErr THEN got.err
                    ELSE IF view.err # NilErr THEN view.err
                    ELSE msg.err
         called == [reqs[t] EXCEPT !.gets = @ + 1]
     IN
       /\ mainCache' = IF got.err = NilErr THEN mainCache \cup {<<group, key>>}
                       ELSE mainCache
       /\ reqs' = [reqs EXCEPT ![t] =
            IF failure # NilErr
            THEN Answered(called, DefaultServerErrorHandler(failure))
            ELSE [called EXCEPT !.contentType = "application/x-protobuf",
                                !.status = StatusOK, !.body = msg.body,
                                !.pc = "done"]]
  /\ UNCHANGED <<registry, serverRequests>>
  /\ UNCHANGED notServe

NextServe ==
  \/ ServeHTTP
  \/ \E t \in Reqs : \E result \in GetResults : GetReturn(t, result)

\* ------------------------------------------------------ the peer transport
\* Goroutines calling Get or Remove of one httpGetter; each makes one call.
NClients == 2
Clients == 1..NClients
\* No buffer: the array of a nil slice.
NoBuf == 0
\* Bytes on the wire: "p" is a well-formed protobuf field, "x" is not.
PeerBodies == {<<"p">>, <<"x", "x">>}
StatusTexts == [s \in {StatusOK, StatusInternalServerError} |->
                  IF s = StatusOK THEN "200 OK" ELSE "500 Internal Server Error"]
\* What the round trip hands back: no response and the transport's error, or
\* a response whose body can be read to its end or fails after a prefix.
TransportError == [type |-> "transport error"]
ReadError == [type |-> "read error"]
NoError == [type |-> "nil"]
NoResp == [StatusCode |-> 0, Status |-> "", Body |-> << >>, complete |-> TRUE]
Responses ==
  [StatusCode : DOMAIN StatusTexts, Status : {""}, Body : PeerBodies,
   complete : BOOLEAN]
RoundTrips ==
  {[err |-> TransportError, res |-> NoResp]}
    \cup {[err |-> NoError,
           res |-> [r EXCEPT !.Status = StatusTexts[r.StatusCode]]] :
            r \in Responses}
\* A []byte: a window on a buffer's backing array; Go's nil slice has no array.
NilSlice == [buf |-> NoBuf, len |-> 0]
NoRead == [n |-> 0, err |-> NoError]
NoOut == [decoded |-> FALSE, fields |-> 0]

\* The request of the t-th call: every call asks for a key of its own.
RequestOf(t) == [group |-> "g", key |-> <<"key", t>>]

\* A call as it starts: the method, the request, the http.Response of
\* makeRequest, Get's buffer b, what io.Copy read into it ([n, err]), the
\* error returned, and Get's out.
NewGetterCall(method, t) ==
  [pc |-> "started", op |-> method, in |-> RequestOf(t), res |-> NoResp,
   b |-> NoBuf, read |-> NoRead, ret |-> NoError, out |-> NoOut]

InitClient ==
  /\ bufferPool = {}
  /\ bufData = << >>
  /\ gcalls = << >>

\* lines 359-366
newRemoteLoadError(get, err) ==
  [type |-> "RemoteLoadError", Group |-> get.group, Key |-> get.key,
   StatusCode |-> 0, Status |-> "", Body |-> NilSlice, Err |-> err]

\* lines 368-378
newRemoteLoadErrorWithResp(get, resp, slice, err) ==
  [type |-> "RemoteLoadError", Group |-> get.group, Key |-> get.key,
   StatusCode |-> resp.StatusCode, Status |-> resp.Status, Body |-> slice,
   Err |-> err]

\* lines 384-386, and the errors of fmt.Errorf without %w, which wrap nothing.
Unwrap(err) == IF err.type = "RemoteLoadError" THEN err.Err ELSE NoError

\* The bytes a slice shows: the first len bytes of its backing array.
Bytes(slice) ==
  IF slice.buf = NoBuf THEN << >> ELSE SubSeq(bufData[slice.buf], 1, slice.len)

\* b.Reset() and the writes of io.Copy: the bytes read replace the front of the
\* backing array (a body of this size never outgrows the array).
Overwrite(array, read) == read \o SubSeq(array, Len(read) + 1, Len(array))

\* What io.Copy reads of a response: all of its body, or all but the last
\* byte and an error.
Read(res) ==
  IF res.complete THEN [n |-> Len(res.Body), err |-> NoError]
  ELSE [n |-> Len(res.Body) - 1, err |-> ReadError]

\* proto.Unmarshal: the bytes decode when every one of them is a field.
Unmarshal(bytes) ==
  IF \A i \in 1..Len(bytes) : bytes[i] = "p"
  THEN [err |-> NoError, out |-> [decoded |-> TRUE, fields |-> Len(bytes)]]
  ELSE [err |-> [type |-> "proto: cannot parse"], out |-> NoOut]

\* Every status passes for 200.
AnyStatusOK(res) == TRUE

\* line 303: res.StatusCode == http.StatusOK
StatusIsOK(res) == res.StatusCode = StatusOK

\* lines 292-296 and 266-290: Get makes the request; a failed round trip is
\* returned as a remote-load error.
ClientGet ==
  /\ Len(gcalls) < NClients
  /\ \E rt \in RoundTrips :
       LET c == NewGetterCall("Get", Len(gcalls) + 1) IN
         gcalls' = Append(gcalls,
           IF rt.err # NoError
           THEN [c EXCEPT !.ret = newRemoteLoadError(c.in, rt.err),
                          !.pc = "done"]
           ELSE [c EXCEPT !.res = rt.res, !.pc = "response"])
  /\ UNCHANGED <<bufferPool, bufData>>
  /\ UNCHANGED notClient

\* line 298 and lines 262-264: bufferPool.Get() hands out a buffer Put there
\* earlier, or a new one.
PoolGet == bufferPool \cup {Len(bufData) + 1}

\* lines 298-301: a buffer is taken from the pool and reset, and the
\* response's body copied into it.
ClientCopy(t, b) ==
  /\ t \in DOMAIN gcalls
  /\ gcalls[t].pc = "response"
  /\ b \in PoolGet
  /\ bufferPool' = bufferPool \ {b}
  /\ LET read == Read(gcalls[t].res)
         bytes == SubSeq(gcalls[t].res.Body, 1, read.n)
     IN
       /\ bufData' = IF b \in DOMAIN bufData
                     THEN [bufData EXCEPT ![b] = Overwrite(@, bytes)]
                     ELSE Append(bufData, bytes)
       /\ gcalls' = [gcalls EXCEPT ![t].b = b, ![t].read = read,
                                   ![t].pc = "copied"]
  /\ UNCHANGED notClient

\* lines 303-314: the status, the read and the decoding are checked in this
\* order; the deferred Put gives the buffer back to the pool.
ClientReturn(t) ==
  /\ t \in DOMAIN gcalls
  /\ gcalls[t].pc = "copied"
  /\ LET c == gcalls[t]
         slice == [buf |-> c.b, len |-> c.read.n]
         decoded == Unmarshal(Bytes(slice))
     IN
       gcalls' = [gcalls EXCEPT ![t] =
         IF ~StatusIsOK(c.res)
         THEN [c EXCEPT !.pc = "done", !.ret =
                 newRemoteLoadErrorWithResp(c.in, c.res, slice,
                   [type |-> "non-OK response code",
                    code |-> c.res.StatusCode])]
         ELSE IF c.read.err # NoError
         THEN [c EXCEPT !.pc = "done", !.ret =
                 newRemoteLoadErrorWithResp(c.in, c.res, NilSlice,
                   [type |-> "reading response body", cause |-> c.read.err])]
         ELSE IF decoded.err # NoError
         THEN [c EXCEPT !.pc = "done", !.ret =
                 newRemoteLoadErrorWithResp(c.in, c.res, slice,
                   [type |-> "decoding response body", cause |-> decoded.err])]
         ELSE [c EXCEPT !.pc = "done", !.out = decoded.out]]
  /\ bufferPool' = bufferPool \cup {gcalls[t].b}
  /\ UNCHANGED bufData
  /\ UNCHANGED notClient

\* lines 317-332: Remove makes the request and reads the body of a response
\* that is not 200; it uses no pooled buffer.
Remove ==
  /\ Len(gcalls) < NClients
  /\ \E rt \in RoundTrips :
       LET c == NewGetterCall("Remove", Len(gcalls) + 1) IN
         gcalls' = Append(gcalls,
           [c EXCEPT !.pc = "done", !.res = rt.res, !.ret =
              IF rt.err # NoError THEN rt.err
              ELSE IF StatusIsOK(rt.res) THEN NoError
              ELSE IF Read(rt.res).err # NoError
              THEN [type |-> "*errors.errorString",
                    text |-> <<"while reading body response:", rt.res.Status>>]
              ELSE [type |-> "*errors.errorString",
                    text |-> <<"server returned status", rt.res.StatusCode,
                               rt.res.Body>>]])
  /\ UNCHANGED <<bufferPool, bufData>>
  /\ UNCHANGED notClient

NextClient ==
  \/ ClientGet
  \/ \E t \in Clients : \E b \in 1..NClients : ClientCopy(t, b)
  \/ \E t \in Clients : ClientReturn(t)
  \/ Remove

\* ------------------------------------------- from the getter to the handler
\* Length of the longest group name and of the longest key.
MaxName == 2
\* The characters of names: "/" and "%" are escaped in a path segment, "2" and
\* "F" are not (and are the digits of the escapes).
Percent == "%"
NameChars == {Slash, Percent, "2", "F"}
Names == Strs(NameChars, MaxName)
\* p.opts.BasePath as one piece of a path.
BasePathPiece == <<defaultBasePath>>
NoPair == <<"none">>

InitCodec ==
  wire = [step |-> "start", group |-> EmptyString, key |-> EmptyString,
          url |-> EmptyString, path |-> EmptyString, parsed |-> NoPair]

\* url.PathEscape, character by character: "/" becomes %2F and "%" becomes
\* %25; letters and digits stay.
RECURSIVE PathEscape(_)
PathEscape(str) ==
  IF str = EmptyString THEN EmptyString
  ELSE (CASE Head(str) = Slash -> <<Percent, "2", "F">>
          [] Head(str) = Percent -> <<Percent, "2", "5">>
          [] OTHER -> <<Head(str)>>) \o PathEscape(Tail(str))

\* The path of the request URL as the server's net/http hands it to the
\* handler in r.URL.Path: every %XX of the path is decoded.
RECURSIVE Unescape(_)
Unescape(str) ==
  IF str = EmptyString THEN EmptyString
  ELSE IF Head(str) = Percent /\ Len(str) >= 3
  THEN (CASE SubSeq(str, 2, 3) = <<"2", "F">> -> <<Slash>>
          [] SubSeq(str, 2, 3) = <<"2", "5">> -> <<Percent>>
          [] OTHER -> SubSeq(str, 1, 3)) \o Unescape(SubSeq(str, 4, Len(str)))
  ELSE <<Head(str)>> \o Unescape(Tail(str))

\* line 270-271: url.PathEscape of the group and of the key
EscapeSegment(str) == PathEscape(str)

\* lines 267-272: the URL's path is the base path, the escaped group, "/" and
\* the escaped key.
makeRequestURL(group, key) ==
  BasePathPiece \o EscapeSegment(group) \o <<Slash>> \o EscapeSegment(key)

\* line 197: strings.HasPrefix(r.URL.Path, p.opts.BasePath)
HasPrefix(path, prefix) ==
  Len(path) >= Len(prefix) /\ SubSeq(path, 1, Len(prefix)) = prefix

\* lines 266-272: the getter builds the URL of a request for (group, key).
CodecSend ==
  /\ wire.step = "start"
  /\ \E group \in Names, key \in Names :
       wire' = [wire EXCEPT !.step = "sent", !.group = group, !.key = key,
                            !.url = makeRequestURL(group, key)]
  /\ UNCHANGED notCodec

\* The server reads the request line and sets r.URL.Path.
CodecReceive ==
  /\ wire.step = "sent"
  /\ wire' = [wire EXCEPT !.step = "received",
                          !.path = BasePathPiece \o
                            Unescape(SubSeq(wire.url, Len(BasePathPiece) + 1,
                                            Len(wire.url)))]
  /\ UNCHANGED notCodec

\* lines 196-206: the handler strips the base path and splits the rest into
\* the group's name and the key.
CodecParse ==
  /\ wire.step = "received"
  /\ HasPrefix(wire.path, BasePathPiece)
  /\ LET parts == SplitN2(SubSeq(wire.path, Len(BasePathPiece) + 1,
                                 Len(wire.path)))
     IN wire' = [wire EXCEPT !.step = "parsed",
                             !.parsed = IF Len(parts) # 2 THEN NoPair ELSE parts]
  /\ UNCHANGED notCodec

NextCodec ==
  \/ CodecSend
  \/ CodecReceive
  \/ CodecParse

\* ------------------------------------------------------ specifications
vars == <<sfVars, nestVars, ctorVars, poolVars, serveVars, clientVars, codecVars>>

Init == InitSF /\ InitCtor /\ InitPool /\ InitServe /\ InitClient /\ InitCodec

\* The flight group.
Spec == Init /\ [][NextSF]_vars

\* Construction of the pool.
SpecCtor == Init /\ [][NextCtor]_vars

\* The constructed pool.
\* The flight group with loaders that call Do on their own Group.
SpecNested == Init /\ [][NextNested]_vars

\* The flight group under fair scheduling: every goroutine that is inside a
\* call and can take its next step eventually takes it. The scheduler runs
\* every runnable goroutine, every loader and every Lock fn ends, and a
\* goroutine blocked in g.mu.Lock() gets the mutex once it stays free.
SpecLive == Init /\ [][NextLive]_vars /\ \A t \in LiveThreads : WF_vars(Proceed(t))

SpecPool == Init /\ [][NextPool]_vars

\* The inbound handler: requests served concurrently.
SpecServe == Init /\ [][NextServe]_vars

\* One request from the getter's URL to the handler's group and key.
SpecCodec == Init /\ [][NextCodec]_vars

\* The peer transport: Get and Remove calls of one getter, run concurrently.
SpecClient == Init /\ [][NextClient]_vars

\* ------------------------------------------------------ the flight group

\* The goroutines that own an entry for key k: leaders between insertion and
\* removal.
Leaders(k) == {t \in Threads : op[t] = "Do" /\ pc[t] \in LeaderPcs /\ opKey[t] = k}

\* The goroutine that ran the loader of call c.
LeaderOf(c) == CHOOSE t \in Threads : op[t] = "Do" /\ ran[t] /\ opCall[t] = c

\* C1: at most one loader execution per key is in progress at any time. A
\* key has at most one leader between the insertion of its entry and the
\* removal, the map holds exactly the entries of those leaders, and so a
\* second loader for the key starts only after the previous leader has
\* finished its loader and removed the entry.
C1_OneLoaderPerKey ==
  \A k \in Keys :
    /\ Cardinality(Leaders(k)) <= 1
    /\ \A t \in Leaders(k) : k \in DOMAIN m /\ m[k] = opCall[t]
    /\ k \in DOMAIN m => Leaders(k) # {}

\* C1 witness: a second loader for a key is executing after an earlier leader
\* of the same key has returned.
C1_Witness ==
  \E t, u \in Threads :
    /\ t # u /\ op[t] = "Do" /\ op[u] = "Do" /\ opKey[t] = opKey[u]
    /\ ran[t] /\ pc[t] = "done"
    /\ ran[u] /\ pc[u] = "loading"

\* C2: a Do call that enters while the loader of its key is executing never
\* runs its own loader; it attaches to that call, the call's loader has run
\* exactly once, and once the follower has returned the leader has its result
\* and (the loader having returned) the follower's value and error are the
\* leader's.
C2_FollowersShareResult ==
  \A t \in Threads :
    (op[t] = "Do" /\ joined[t] # NoCall) =>
      /\ ~ran[t]
      /\ opCall[t] = joined[t]
      /\ Cardinality({u \in Threads : op[u] = "Do" /\ ran[u] /\ opCall[u] = joined[t]}) = 1
      /\ pc[t] = "done" =>
           /\ pc[LeaderOf(joined[t])] \in {"deferLock", "done"}
           /\ ~pan[LeaderOf(joined[t])] => ret[t] = ret[LeaderOf(joined[t])]

\* C2 witness: three calls of one key, two of them entered while the first
\* one's loader was executing, all returned with the loader's value.
C2_Witness ==
  /\ \A t \in 1..3 : op[t] = "Do" /\ pc[t] = "done" /\ ~pan[t]
  /\ ran[1] /\ joined[2] = opCall[1] /\ joined[3] = opCall[1]
  /\ ret[1] = [val |-> SomeVal, err |-> NilErr]
  /\ ret[2] = ret[1] /\ ret[3] = ret[1]
  /\ Len(calls) = 1

\* C3: no goroutine holds the group mutex while it executes a loader (and the
\* mutex is held between steps only by a Lock call running its fn).
C3_LoaderRunsUnlocked ==
  /\ \A t \in Threads : pc[t] = "loading" => mu # t
  /\ mu # Unlocked => pc[mu] = "lockFn"

\* C3 witness: the loaders of two different keys are executing at the same
\* time.
C3_Witness ==
  \E t, u \in Threads :
    /\ pc[t] = "loading" /\ pc[u] = "loading"
    /\ opKey[t] # opKey[u]

\* C4: when the leader's loader panics, the completion signal still fires and
\* the entry is still removed (the deferred steps stay enabled, and a leader
\* that has left Do has done both), every follower of that call returns no
\* value and the pre-seeded sentinel error, and the leader's Do ends in the
\* panic without a return value.
C4_PanicCleansUp ==
  \A t \in Threads :
    (op[t] = "Do" /\ ran[t] /\ pan[t]) =>
      /\ pc[t] \in {"deferDone", "deferLock", "done"}
      /\ pc[t] = "deferDone" => ENABLED DeferDone(t)
      /\ (pc[t] = "deferLock" /\ MuFree) => ENABLED DeferDelete(t)
      /\ pc[t] = "done" =>
           /\ calls[opCall[t]].wg = 0
           /\ ~(opKey[t] \in DOMAIN m /\ m[opKey[t]] = opCall[t])
      /\ ret[t] = NoRet
      /\ \A f \in Threads :
           (op[f] = "Do" /\ ~ran[f] /\ opCall[f] = opCall[t] /\ pc[f] = "done") =>
             ret[f] = [val |-> NilVal, err |-> LeaderPanicked]

\* C4 witness: a leader whose loader panicked has left Do, and a follower of
\* its call has returned the sentinel error.
C4_Witness ==
  \E t, f \in Threads :
    /\ op[t] = "Do" /\ ran[t] /\ pan[t] /\ pc[t] = "done"
    /\ op[f] = "Do" /\ ~ran[f] /\ opCall[f] = opCall[t] /\ pc[f] = "done"
    /\ ret[f].err = LeaderPanicked

\* The keys that have a call in flight, told from the goroutines.
KeysInFlight == {k \in Keys : Leaders(k) # {}}

\* C5: Count returns the number of distinct keys that have an entry in
\* flight, however many followers wait on each, and 0 once every Do call has
\* returned.
C5_CountIsKeysInFlight ==
  [][\A t \in Threads :
       Count(t) =>
         /\ ret'[t].val = Cardinality(KeysInFlight)
         /\ (\A u \in Threads : pc[u] \in {"idle", "done", "lockFn"}) => ret'[t].val = 0
    ]_vars

\* C5 witness: Count returned 1 while a leader and a follower of one key were
\* both inside Do.
C5_Witness ==
  /\ op[1] = "Do" /\ pc[1] = "loading"
  /\ op[2] = "Do" /\ pc[2] = "waiting" /\ opCall[2] = opCall[1]
  /\ op[3] = "Count" /\ pc[3] = "done" /\ ret[3].val = 1

\* The creation instants of the calls in flight, told from the goroutines.
CreatedInFlight ==
  {calls[opCall[t]].created : t \in {u \in Threads : op[u] = "Do" /\ pc[u] \in LeaderPcs}}

\* C6: LongestRunningStartTime returns the minimum creation instant of the
\* entries in the map, which is not later than now, and the zero instant
\* exactly when the map holds no entry (so after every Do call has returned).
C6_OldestIsMinimum ==
  [][\A t \in Threads :
       LongestRunningStartTime(t) =>
         /\ CreatedInFlight = {} => ret'[t].val = ZeroTime
         /\ CreatedInFlight # {} =>
              /\ ret'[t].val \in CreatedInFlight
              /\ \A x \in CreatedInFlight : ret'[t].val <= x
              /\ ret'[t].val <= now'
         /\ ret'[t].val = ZeroTime <=> DOMAIN m = {}
         /\ (\A u \in Threads : pc[u] \in {"idle", "done", "lockFn"}) =>
              ret'[t].val = ZeroTime
    ]_vars

\* C6 witness: with two calls in flight that were created at different
\* instants, LongestRunningStartTime returned the earlier one.
C6_Witness ==
  /\ pc[1] \in LeaderPcs /\ pc[2] \in LeaderPcs
  /\ calls[opCall[1]].created < calls[opCall[2]].created
  /\ op[3] = "Time" /\ pc[3] = "done" /\ ret[3].val = calls[opCall[1]].created

\* A Lock call is running its fn before and after the step.
FnRunning == \E l \in Threads : pc[l] = "lockFn" /\ pc'[l] = "lockFn"

\* C7: while the fn passed to Lock is executing, no Do call that has not yet
\* got the mutex makes progress: no entry is inserted, no call is created, no
\* goroutine becomes a leader or a follower.
C7_LockHoldsOffDo ==
  [][FnRunning =>
       /\ DOMAIN m' \subseteq DOMAIN m
       /\ Len(calls') = Len(calls)
       /\ \A t \in Threads :
            /\ op[t] = "none" => op'[t] = "none"
            /\ pc[t] = "idle" => pc'[t] = "idle"
            /\ pc'[t] = "loading" => pc[t] = "loading"
            /\ pc'[t] = "waiting" => pc[t] = "waiting"
    ]_vars

\* C7 witness: a Lock call is running its fn while one key is in flight and a
\* goroutine has still to make its call.
C7_Witness ==
  /\ pc[1] = "loading"
  /\ pc[2] = "lockFn" /\ mu = 2
  /\ pc[3] = "idle"

\* What a leader does next.
LeaderStep(t) ==
  \/ \E r \in LoaderResults : LoaderReturn(t, r)
  \/ LoaderPanic(t)
  \/ DeferDone(t)
  \/ DeferDelete(t)

\* C8 as stated: while fn is running, a leader whose loader was executing
\* when Lock began never waits for fn: whatever it has to do next, up to and
\* including its return from Do, it can do.
C8_LeaderNeverWaitsForFn ==
  \A l \in Threads, t \in loadingAtLock :
    (pc[l] = "lockFn" /\ pc[t] \in LeaderPcs) => ENABLED LeaderStep(t)

\* C8 amended: while fn is running, the loader of such a leader can finish,
\* the completion signal can fire and its followers can return with the
\* result, none of them waiting for fn; the leader's own Do call returns only
\* after fn has returned, because it must get the mutex to remove the entry.
C8_LoaderAndFollowersUnaffected ==
  \A l \in Threads, t \in loadingAtLock :
    pc[l] = "lockFn" =>
      /\ pc[t] = "loading" =>
           /\ ENABLED LoaderPanic(t)
           /\ \A r \in LoaderResults : ENABLED LoaderReturn(t, r)
      /\ pc[t] = "deferDone" => ENABLED DeferDone(t)
      /\ \A f \in Threads :
           (pc[f] = "waiting" /\ opCall[f] = opCall[t] /\ pc[t] = "deferLock") =>
             ENABLED FollowerReturn(f)
      /\ pc[t] = "deferLock" => ~ENABLED DeferDelete(t)
      /\ pc[t] # "done"
      /\ opKey[t] \in DOMAIN m /\ m[opKey[t]] = opCall[t]

\* C8 witness: fn is still running, the loader that was executing when Lock
\* began has returned, its follower has returned with the loader's result,
\* and the leader waits for the mutex.
C8_Witness ==
  \E l, t, f \in Threads :
    /\ pc[l] = "lockFn" /\ t \in loadingAtLock
    /\ pc[t] = "deferLock" /\ ~pan[t]
    /\ pc[f] = "done" /\ op[f] = "Do" /\ opCall[f] = opCall[t] /\ ~ran[f]
    /\ ret[f] = ret[t]

\* ------------------------------------------------- the pool constructor

\* C9: over any interleaving of construction attempts at most one attempt
\* returns a pool.
C9_AtMostOnePool ==
  Cardinality({t \in Ctors : cpc[t] = "returned"}) <= 1

\* ------------------------------------------------- the constructed pool

\* The peers of Set call number gen; call 0 is the constructor.
PeersOfGen(gen) == IF gen = 0 THEN {} ELSE setArgs[gen]

\* C10: a reader finds the ring and the getter map of one and the same Set
\* call. GetAll returns exactly the getters of that call's peers; PickPeer
\* that returns true returns the getter made for the owner the ring chose,
\* never a nil one.
C10_SetIsAtomic ==
  \A t \in Callers :
    (ppc[t] = "done" /\ pop[t] \in {"PickPeer", "GetAll"}) =>
      /\ seen[t][1] = seen[t][2]
      /\ pop[t] = "GetAll" =>
           pret[t].all = {MakeGetter(x) : x \in PeersOfGen(seen[t][2])}
      /\ (pop[t] = "PickPeer" /\ pret[t].ok) =>
           /\ pret[t].getter # NilGetter
           /\ pret[t].owner = Get(PeersOfGen(seen[t][1]), parg[t])
           /\ pret[t].getter = MakeGetter(pret[t].owner)

\* C10 witness: after two Set calls with different peers, PickPeer returned
\* the getter of a remote owner that only the second call named.
C10_Witness ==
  \E t \in Callers :
    /\ ppc[t] = "done" /\ pop[t] = "PickPeer" /\ pret[t].ok
    /\ Len(setArgs) = 2 /\ seen[t] = <<2, 2>>
    /\ pret[t].owner \notin setArgs[1]
    /\ pret[t].getter = MakeGetter(pret[t].owner)

\* The ring a reader found.
RingSeen(t) == PeersOfGen(seen[t][1])

\* C11: PickPeer returns no remote peer when the ring is empty or the ring's
\* owner of the key is the pool's own identity, and otherwise the owner's
\* getter and true; so two PickPeer calls with the same key on rings of the
\* same peers return the same, and on a ring that holds only the pool itself
\* every key has no remote peer. A PickPeer step changes nothing of the pool.
C11_PickPeerRoutes ==
  /\ [](\A t \in Callers :
          (ppc[t] = "done" /\ pop[t] = "PickPeer") =>
            /\ RingSeen(t) = {} =>
                 ~pret[t].ok /\ pret[t].getter = NilGetter
            /\ (RingSeen(t) # {} /\ Get(RingSeen(t), parg[t]) = Self) =>
                 ~pret[t].ok /\ pret[t].getter = NilGetter
            /\ (RingSeen(t) # {} /\ Get(RingSeen(t), parg[t]) # Self) =>
                 /\ pret[t].ok
                 /\ pret[t].getter = MakeGetter(Get(RingSeen(t), parg[t]))
            /\ RingSeen(t) = {Self} => ~pret[t].ok
            /\ \A u \in Callers :
                 (ppc[u] = "done" /\ pop[u] = "PickPeer" /\ parg[u] = parg[t]
                    /\ RingSeen(u) = RingSeen(t)) => pret[u] = pret[t])
  /\ [][\A t \in Callers, key \in PickKeys :
          PickPeer(t, key) =>
            UNCHANGED <<poolMu, peers, httpGetters, peersGen, gettersGen, setArgs>>]_vars

\* C11 witness: on the same ring two PickPeer calls with one key returned the
\* same remote getter, and a PickPeer call on a ring that holds only the pool
\* itself returned no remote peer.
C11_Witness ==
  \/ \E t, u \in Callers :
       /\ t # u /\ ppc[t] = "done" /\ ppc[u] = "done"
       /\ pop[t] = "PickPeer" /\ pop[u] = "PickPeer" /\ parg[t] = parg[u]
       /\ seen[t] = seen[u] /\ pret[t].ok /\ pret[u] = pret[t]
       /\ pret[t].getter = MakeGetter(2)
  \/ \E t \in Callers :
       /\ ppc[t] = "done" /\ pop[t] = "PickPeer"
       /\ RingSeen(t) = {Self} /\ ~pret[t].ok /\ pret[t].owner = Self

\* --------------------------------------------------- the inbound handler
\* The path after the base path has two segments: it holds a "/".
TwoSegments(tail) == \E i \in 1..Len(tail) : tail[i] = Slash
\* The first segment (the group's name) and the rest (the key).
FirstSlash(tail) ==
  CHOOSE i \in 1..Len(tail) :
    tail[i] = Slash /\ \A j \in 1..(i - 1) : tail[j] # Slash
GroupOf(tail) == SubSeq(tail, 1, FirstSlash(tail) - 1)
KeyOf(tail) == SubSeq(tail, FirstSlash(tail) + 1, Len(tail))
Served(t) == t \in DOMAIN reqs /\ reqs[t].pc = "done"
SuccessBody(t) == reqs[t].body.kind = "protobuf"

\* C12: with the default error hook a request under the base path is answered
\* in this order: fewer than two path segments give 400 with no group looked
\* up; a group that is not registered gives 404; a failing group Get gives
\* 500; everything else gives 200. Each error answer comes from one call of
\* the hook, and no success body is written with it.
C12_StatusOrder ==
  /\ [](\A t \in Reqs : Served(t) =>
          /\ ~TwoSegments(reqs[t].tail) =>
               reqs[t].status = StatusBadRequest /\ reqs[t].lookups = 0 /\ reqs[t].gets = 0
          /\ (TwoSegments(reqs[t].tail) /\ GroupOf(reqs[t].tail) \notin registry) =>
               reqs[t].status = StatusNotFound /\ reqs[t].lookups = 1 /\ reqs[t].gets = 0
          /\ (TwoSegments(reqs[t].tail) /\ GroupOf(reqs[t].tail) \in registry) =>
               reqs[t].status \in {StatusOK, StatusInternalServerError}
          /\ reqs[t].status # StatusOK =>
               reqs[t].hookCalls = 1 /\ ~SuccessBody(t) /\ reqs[t].body.kind = "text"
          /\ reqs[t].status = StatusOK => reqs[t].hookCalls = 0)
  /\ [][\A t \in Reqs :
          /\ GetReturn(t, "error") =>
               /\ reqs'[t].status = StatusInternalServerError
               /\ reqs'[t].hookCalls = reqs[t].hookCalls + 1
          /\ (\E result \in GetResults \ {"error"} : GetReturn(t, result)) =>
               /\ reqs'[t].status = StatusOK /\ SuccessBody(t)'
               /\ reqs'[t].body.value = ValueOf(KeyOf(reqs[t].tail))]_vars

\* C12 witness: a request with two path segments was answered 500 by one call
\* of the hook after the registered group's Get failed.
C12_Witness ==
  \E u \in Reqs :
    /\ Served(u) /\ reqs[u].status = StatusInternalServerError /\ reqs[u].gets = 1
    /\ reqs[u].lookups = 1 /\ reqs[u].hookCalls = 1 /\ reqs[u].body.err = GetError
    /\ TwoSegments(reqs[u].tail) /\ GroupOf(reqs[u].tail) \in registry

\* C13: a DELETE for a registered group calls the group's local removal once
\* and its Get never, and is answered 200 with an empty body; when it has
\* completed, the key is not in the group's local cache.
C13_DeleteRemovesLocally ==
  /\ [](\A t \in Reqs :
          (Served(t) /\ reqs[t].method = MethodDelete /\ TwoSegments(reqs[t].tail)
             /\ GroupOf(reqs[t].tail) \in registry) =>
            /\ reqs[t].removes = 1 /\ reqs[t].gets = 0 /\ reqs[t].hookCalls = 0
            /\ reqs[t].status = StatusOK /\ reqs[t].body = NoBody)
  /\ [][\A t \in Reqs :
          (~Served(t) /\ Served(t)' /\ reqs'[t].method = MethodDelete
             /\ TwoSegments(reqs'[t].tail) /\ GroupOf(reqs'[t].tail) \in registry) =>
            <<GroupOf(reqs'[t].tail), KeyOf(reqs'[t].tail)>> \notin mainCache']_vars

\* C13 witness: a DELETE of key k of the registered group was answered 200
\* after one local removal, and the cache is without the key.
C13_Witness ==
  \E t \in Reqs :
    /\ Served(t) /\ reqs[t].method = MethodDelete /\ reqs[t].status = StatusOK
    /\ reqs[t].tail = <<"g", Slash, "k">>
    /\ reqs[t].removes = 1 /\ reqs[t].gets = 0 /\ reqs[t].body = NoBody
    /\ <<GroupOf(reqs[t].tail), KeyOf(reqs[t].tail)>> \notin mainCache

\* ------------------------------------------------------ the peer transport
GetDone(t) == t \in DOMAIN gcalls /\ gcalls[t].pc = "done" /\ gcalls[t].op = "Get"
\* The round trip of call t failed: there is no response.
TransportFailed(t) == gcalls[t].res = NoResp
\* The bytes call t read of its response's body.
BodyRead(t) == SubSeq(gcalls[t].res.Body, 1, gcalls[t].read.n)
Decodes(bytes) == \A i \in 1..Len(bytes) : bytes[i] = "p"

\* C14: Get returns no error only when the round trip succeeded, the status is
\* 200, the body was read to its end and decodes. Otherwise it returns a
\* remote-load error with the request's group and key: after a transport
\* failure with status code 0, no body and the transport's error as cause;
\* after a status other than 200 with that status code, its text and, when Get
\* returns, the bytes read from the peer; after a 200 body that does not
\* decode with, when Get returns, the raw body and the decode failure as cause.
C14_GetErrorShape ==
  /\ [](\A t \in Clients : GetDone(t) =>
          /\ gcalls[t].ret = NoError <=>
               /\ ~TransportFailed(t) /\ gcalls[t].res.StatusCode = StatusOK
               /\ gcalls[t].res.complete /\ Decodes(gcalls[t].res.Body)
          /\ gcalls[t].ret # NoError =>
               /\ gcalls[t].ret.type = "RemoteLoadError"
               /\ gcalls[t].ret.Group = RequestOf(t).group
               /\ gcalls[t].ret.Key = RequestOf(t).key
          /\ TransportFailed(t) =>
               /\ gcalls[t].ret.StatusCode = 0 /\ gcalls[t].ret.Body = NilSlice
               /\ gcalls[t].ret.Err = TransportError
          /\ (~TransportFailed(t) /\ gcalls[t].res.StatusCode # StatusOK) =>
               /\ gcalls[t].ret.StatusCode = gcalls[t].res.StatusCode
               /\ gcalls[t].ret.Status = StatusTexts[gcalls[t].res.StatusCode]
               /\ gcalls[t].ret.Err.type = "non-OK response code"
               /\ gcalls[t].ret.Body.len = gcalls[t].read.n
          /\ (~TransportFailed(t) /\ gcalls[t].res.StatusCode = StatusOK
                /\ gcalls[t].res.complete /\ ~Decodes(gcalls[t].res.Body)) =>
               /\ gcalls[t].ret.StatusCode = StatusOK
               /\ gcalls[t].ret.Err.type = "decoding response body"
               /\ gcalls[t].ret.Body.len = Len(gcalls[t].res.Body))
  /\ [][\A t \in Clients :
          (ClientReturn(t) /\ gcalls'[t].ret # NoError /\ gcalls'[t].ret.Body # NilSlice) =>
            Bytes(gcalls[t].ret.Body)' = BodyRead(t)]_vars

\* C14 witness: one Get call returned the remote-load error of a 500 response
\* with the bytes read, and another returned no error and decoded its body.
C14_Witness ==
  \E t, u \in Clients :
    /\ GetDone(t) /\ gcalls[t].ret # NoError /\ gcalls[t].ret.StatusCode = StatusInternalServerError
    /\ Bytes(gcalls[t].ret.Body) = <<"x", "x">>
    /\ GetDone(u) /\ gcalls[u].ret = NoError /\ gcalls[u].out.decoded

\* C15: every error Get or Remove returns is a remote-load error that unwraps
\* to its cause.
C15_AllErrorsAreRemoteLoadErrors ==
  \A t \in Clients :
    (t \in DOMAIN gcalls /\ gcalls[t].pc = "done" /\ gcalls[t].ret # NoError) =>
      gcalls[t].ret.type = "RemoteLoadError" /\ Unwrap(gcalls[t].ret) # NoError

\* C16: the body of the remote-load error Get returned for a status other than
\* 200 is what was read from the peer, whatever Get calls came later.
C16_ErrorBodyStays ==
  \A t \in Clients :
    (GetDone(t) /\ gcalls[t].ret # NoError /\ ~TransportFailed(t)
       /\ gcalls[t].res.StatusCode # StatusOK) =>
      Bytes(gcalls[t].ret.Body) = BodyRead(t)

\* ------------------------------------------- the flight group, continued
\* Do call t found the entry of a call whose loader was no longer executing.
LateAttached(t) ==
  /\ op[t] = "Do" /\ pc[t] \in {"waiting", "done"}
  /\ ~ran[t] /\ joined[t] = NoCall

\* C18: a Do call that starts after the leader's loader has ended and before
\* the leader has removed the entry attaches to the ended call. It never runs
\* a loader of its own; it waits for nothing but the leader's completion
\* signal, which the leader fires without taking the mutex, and once the
\* signal has fired it can return whoever holds the mutex; it returns what
\* the ended execution left in the call.
C18_LateAttachReturnsFinishedResult ==
  \A t \in Threads :
    LateAttached(t) =>
      /\ opCall[t] # NoCall
      /\ pc[LeaderOf(opCall[t])] \in {"deferDone", "deferLock", "done"}
      /\ (pc[t] = "waiting" /\ pc[LeaderOf(opCall[t])] = "deferDone") =>
           ENABLED DeferDone(LeaderOf(opCall[t]))
      /\ (pc[t] = "waiting" /\ pc[LeaderOf(opCall[t])] # "deferDone") =>
           ENABLED FollowerReturn(t)
      /\ pc[t] = "done" =>
           /\ pc[LeaderOf(opCall[t])] \in {"deferLock", "done"}
           /\ ~pan[LeaderOf(opCall[t])] => ret[t] = ret[LeaderOf(opCall[t])]
           /\ pan[LeaderOf(opCall[t])] =>
                ret[t] = [val |-> NilVal, err |-> LeaderPanicked]

\* C18 witness: a Do call attached after the signal had fired and before the
\* entry was removed, and has returned the loader's value while the leader is
\* still about to remove the entry.
C18_Witness ==
  \E t \in Threads :
    /\ LateAttached(t) /\ pc[t] = "done"
    /\ pc[LeaderOf(opCall[t])] = "deferLock"
    /\ opKey[t] \in DOMAIN m /\ m[opKey[t]] = opCall[t]
    /\ ret[t] = [val |-> SomeVal, err |-> NilErr]
    /\ ret[t] = ret[LeaderOf(opCall[t])]

\* C17: under fair scheduling, with loaders that return or panic without
\* calling back into the Group and Lock functions that return, every Do call
\* returns and whenever the map holds an entry it is empty again later; and a
\* follower returns only once the completion signal of its call has fired.
C17_EveryDoReturns ==
  /\ \A t \in Threads : (op[t] = "Do") ~> (pc[t] = "done")
  /\ (DOMAIN m # {}) ~> (DOMAIN m = {})
  /\ [][\A t \in Threads : FollowerReturn(t) => calls[opCall[t]].wg = 0]_vars

\* C17 witness: a leader and a follower of its call have both returned, the
\* follower with the leader's value, and the map is empty.
C17_Witness ==
  \E t, u \in Threads :
    /\ op[t] = "Do" /\ ran[t] /\ pc[t] = "done"
    /\ op[u] = "Do" /\ ~ran[u] /\ opCall[u] = opCall[t] /\ pc[u] = "done"
    /\ ret[u] = ret[t] /\ calls[opCall[t]].wg = 0
    /\ DOMAIN m = {}

\* The loader of goroutine t is inside a Do call for its own key.
SelfWaiting(t) ==
  /\ pc[t] = "nestedWaiting" /\ inner[t] = opCall[t]

\* Goroutine u is a follower of the call of goroutine t.
FollowerOf(u, t) == pc[u] = "waiting" /\ opCall[u] = opCall[t]

\* C19: a loader that calls Do with its own key on the same Group never
\* returns. The inner call is a follower of the loader's own call: the signal
\* has not fired and cannot fire, the entry stays in the map, neither the
\* inner call nor any follower can return, every later Do call for the key
\* becomes a follower too, and no step changes any of this.
C19_SelfCallNeverReturns ==
  /\ [](\A t \in Threads : SelfWaiting(t) =>
          /\ calls[opCall[t]].wg = 1
          /\ opKey[t] \in DOMAIN m /\ m[opKey[t]] = opCall[t]
          /\ ~ENABLED NestedReturn(t)
          /\ ~ENABLED DeferDone(t)
          /\ \A u \in Threads : FollowerOf(u, t) => ~ENABLED FollowerReturn(u))
  /\ [][\A t \in Threads : SelfWaiting(t) =>
          /\ SelfWaiting(t)'
          /\ \A u \in Threads :
               /\ FollowerOf(u, t) => FollowerOf(u, t)'
               /\ DoEnter(u, opKey[t]) => FollowerOf(u, t)']_vars

\* C19 witness: a loader waits in a Do call for its own key, and a Do call
\* for that key that came later waits with it.
C19_Witness ==
  \E t, u \in Threads :
    /\ SelfWaiting(t) /\ FollowerOf(u, t) /\ opKey[u] = opKey[t]
    /\ joined[u] = NoCall

\* ------------------------------------------- from the getter to the handler
\* C20: the group and the key that the handler parses from the decoded path
\* of the URL the getter built are the group and the key of the request,
\* whatever characters they hold.
C20_PathRoundTrip ==
  wire.step = "parsed" => wire.parsed = <<wire.group, wire.key>>

====
